---- MODULE Spec2Model ----
(***************************************************************************)
(* Image-to-LEGO: the two-stage blueprint pipeline (geminiService), the    *)
(* session state machine of App and the version list of LegoResult.        *)
(*                                                                         *)
(* JS objects are records whose DOMAIN is the set of keys present.         *)
(* "T | null" values are sequences of length <= 1: <<>> is null.           *)
(* Texts are sequences of lexical tokens (see parseJson).                  *)
(* Prices are integers (cents).                                            *)
(***************************************************************************)
EXTENDS Integers, Sequences, FiniteSets, TLC

\* ---------------------------------------------------------------- bounds
MaxTextLen == 4
MaxStale == 1

\* ------------------------------------------------------------ basic values
Null == <<>>

Some(x) == <<x>>

Sizes == {"Micro", "Medium", "Large"}

Spread(o, extra) ==
    [k \in (DOMAIN o) \cup (DOMAIN extra) |->
        IF k \in DOMAIN extra THEN extra[k] ELSE o[k]]

Err(msg) == [kind |-> "Error", message |-> msg]

ReaderErrorEvent == [kind |-> "ProgressEvent", message |-> ""]

Arr(items) == [kind |-> "array", items |-> items]

\* ------------------------------------------------- geminiService: fallback
FallbackParts ==
    << [pieceId |-> "3001", pieceName |-> "2x4 Brick", color |-> "Red",
        quantity |-> 10, estimatedPrice |-> 12],
       [pieceId |-> "3002", pieceName |-> "2x3 Brick", color |-> "Blue",
        quantity |-> 8, estimatedPrice |-> 10],
       [pieceId |-> "3003", pieceName |-> "2x2 Brick", color |-> "Yellow",
        quantity |-> 15, estimatedPrice |-> 8] >>

fallbackBlueprint ==
    [title |-> "My Custom Brick Model",
     partsList |-> Arr(FallbackParts),
     totalPieces |-> 33,
     estimatedCost |-> 350,
     difficultyLevel |-> "Intermediate",
     buildTime |-> "30-45 minutes",
     description |-> "A creative brick model. The AI was unable to provide a detailed parts list, so this is an example breakdown."]

\* ------------------------------------------- geminiService: cleanJsonString
RECURSIVE IndexFrom(_, _, _)
IndexFrom(str, ch, i) ==
    IF i > Len(str) THEN -1
    ELSE IF str[i] = ch THEN i - 1
    ELSE IndexFrom(str, ch, i + 1)

indexOf(str, ch) == IndexFrom(str, ch, 1)

RECURSIVE LastIndexFrom(_, _, _)
LastIndexFrom(str, ch, i) ==
    IF i < 1 THEN -1
    ELSE IF str[i] = ch THEN i - 1
    ELSE LastIndexFrom(str, ch, i - 1)

lastIndexOf(str, ch) == LastIndexFrom(str, ch, Len(str))

\* str.substring(from, to) on 0-based indices, to exclusive
substring(str, from, to) == SubSeq(str, from + 1, to)

EmptyObjectString == << "{", "}" >>

\* mutant: the closing brace searched from the front
cleanJsonString_firstClose(str) ==
    LET firstBrace == indexOf(str, "{")
        lastBrace == indexOf(str, "}")
    IN  IF firstBrace = -1 \/ lastBrace = -1 \/ lastBrace < firstBrace
        THEN EmptyObjectString
        ELSE substring(str, firstBrace, lastBrace + 1)

cleanJsonString(str) ==
    LET firstBrace == indexOf(str, "{")
        lastBrace == lastIndexOf(str, "}")
    IN  IF firstBrace = -1 \/ lastBrace = -1 \/ lastBrace < firstBrace
        THEN EmptyObjectString
        ELSE substring(str, firstBrace, lastBrace + 1)

\* ------------------------------------------------ JSON.parse on token texts
\* A text is a sequence of tokens.  "{" and "}" are the brace characters;
\* "w" is a run of prose; the other tokens are whole members of an object:
\*   "t"  "title":"T"            "e"  "title":""
\*   "p"  "partsList":[ ... ]    followed by its part objects, each "{" "}"
\*   "n"  "partsList":"none"     "z"  "partsList":null
\*   "i"  "legoImageData":"stale"      "s"  "size":"Large"
\*   "m"  totalPieces, estimatedCost, difficultyLevel, buildTime, description
ScenarioPart ==
    [pieceId |-> "3001", pieceName |-> "Brick", color |-> "Red",
     quantity |-> 2, estimatedPrice |-> 10]

StaleImage == << "data:", "image/png", ";base64,", "stale" >>

StaleSize == "Large"

EmptyObject == [k \in {} |-> 0]

ScenarioMeta ==
    [totalPieces |-> 2, estimatedCost |-> 20, difficultyLevel |-> "Beginner",
     buildTime |-> "10 min", description |-> "d"]

\* number of part objects "{" "}" starting at position j, before the closing brace
RECURSIVE PartObjects(_, _)
PartObjects(s, j) ==
    IF j + 1 <= Len(s) - 1 /\ s[j] = "{" /\ s[j + 1] = "}"
    THEN 1 + PartObjects(s, j + 2)
    ELSE 0

RECURSIVE ParseMembers(_, _, _)
ParseMembers(s, i, obj) ==
    IF i > Len(s) - 1 THEN [ok |-> TRUE, value |-> obj]
    ELSE CASE s[i] = "t" -> ParseMembers(s, i + 1, Spread(obj, [title |-> "T"]))
           [] s[i] = "e" -> ParseMembers(s, i + 1, Spread(obj, [title |-> ""]))
           [] s[i] = "p" ->
                LET n == PartObjects(s, i + 1)
                IN  ParseMembers(s, i + 1 + 2 * n,
                        Spread(obj, [partsList |-> Arr([x \in 1..n |-> ScenarioPart])]))
           [] s[i] = "n" ->
                ParseMembers(s, i + 1,
                    Spread(obj, [partsList |-> [kind |-> "string", items |-> <<>>]]))
           [] s[i] = "z" ->
                ParseMembers(s, i + 1,
                    Spread(obj, [partsList |-> [kind |-> "null", items |-> <<>>]]))
           [] s[i] = "i" -> ParseMembers(s, i + 1, Spread(obj, [legoImageData |-> StaleImage]))
           [] s[i] = "s" -> ParseMembers(s, i + 1, Spread(obj, [size |-> StaleSize]))
           [] s[i] = "m" -> ParseMembers(s, i + 1, Spread(obj, ScenarioMeta))
           [] OTHER -> [ok |-> FALSE, value |-> EmptyObject]

\* JSON.parse: ok = FALSE stands for the SyntaxError it throws
parseJson(s) ==
    IF Len(s) >= 2 /\ s[1] = "{" /\ s[Len(s)] = "}"
    THEN ParseMembers(s, 2, EmptyObject)
    ELSE [ok |-> FALSE, value |-> EmptyObject]

\* JS truthiness of parsedJson.partsList / parsedJson.title
HasPartsList(o) == "partsList" \in DOMAIN o /\ o.partsList.kind # "null"

IsArray(v) == v.kind = "array"

HasTitle(o) == "title" \in DOMAIN o /\ o.title # ""

\* mutant: the title is not checked
PayloadRejected_noTitleCheck(parsedJson) ==
    \/ ~HasPartsList(parsedJson)
    \/ ~IsArray(parsedJson.partsList)

\* the "Basic validation" of the parsed payload: TRUE when it throws
PayloadRejected(parsedJson) ==
    \/ ~HasPartsList(parsedJson)
    \/ ~IsArray(parsedJson.partsList)
    \/ ~HasTitle(parsedJson)

\* mutant: the fallback keeps the default size
fallbackResult_defaultSize(legoImageData, size) ==
    Spread(fallbackBlueprint, [legoImageData |-> legoImageData, size |-> "Medium"])

fallbackResult(legoImageData, size) ==
    Spread(fallbackBlueprint, [legoImageData |-> legoImageData, size |-> size])

\* mutant: the payload is spread last and overrides the pipeline's values
ParsedResult_payloadLast(parsedJson, legoImageData, size) ==
    Spread([legoImageData |-> legoImageData, size |-> size], parsedJson)

ParsedResult(parsedJson, legoImageData, size) ==
    Spread(parsedJson, [legoImageData |-> legoImageData, size |-> size])

\* generateLegoBlueprint's try/catch around cleanJsonString, JSON.parse and
\* its validation of the payload
BlueprintFromText(text, legoImageData, size) ==
    LET cleanedJson == cleanJsonString(text)
        parsed == parseJson(cleanedJson)
    IN  IF ~parsed.ok THEN fallbackResult(legoImageData, size)
        ELSE IF PayloadRejected(parsed.value) THEN fallbackResult(legoImageData, size)
        ELSE ParsedResult(parsed.value, legoImageData, size)

\* ------------------------------------------ service responses (candidates[0])
ImagePart(mime, data) == [inlineData |-> [mimeType |-> mime, data |-> data]]

TextPart(text) == [text |-> text]

\* parts.find(part => part.inlineData): <<>> when there is none
RECURSIVE FindFrom(_, _, _)
FindFrom(parts, key, i) ==
    IF i > Len(parts) THEN Null
    ELSE IF key \in DOMAIN parts[i] /\ (key = "text" => Len(parts[i].text) > 0)
         THEN Some(parts[i])
         ELSE FindFrom(parts, key, i + 1)

find(parts, key) == FindFrom(parts, key, 1)

DataUrl(inlineData) == << "data:", inlineData.mimeType, ";base64,", inlineData.data >>

\* --------------------------------------------- geminiService: pipeline runs
\* Messages are template literals: sequences of pieces, '' is <<>>.
Str(s) == << s >>

EmptyString == <<>>

\* One run of generateLegoBlueprint / resizeLegoBlueprint.  pc is the await
\* the run is suspended at; notes are the setProgress calls made so far,
\* calls the generateContent calls issued so far, and trace the order in
\* which the run made them.
NewRun(entry, size) ==
    [entry |-> entry, size |-> size, pc |-> "start", notes |-> <<>>,
     calls |-> <<>>, trace |-> <<>>, legoImageData |-> Null, result |-> Null,
     err |-> Null]

Throw(run, e) == [run EXCEPT !.pc = "thrown", !.err = Some(e)]

Return(run, blueprint) == [run EXCEPT !.pc = "returned", !.result = Some(blueprint)]

ApiKeyError == Err(Str("API_KEY environment variable not set."))

\* a generateContent call either rejects or resolves with candidates[0].content.parts
Rejected(e) == [ok |-> FALSE, err |-> e, parts |-> <<>>]

Resolved(parts) == [ok |-> TRUE, err |-> ApiKeyError, parts |-> parts]

\* mutant: the payload's own size wins over the target size
ResizeBlueprintFromText_payloadSize(text, legoImageData, targetSize) ==
    LET cleanedJson == cleanJsonString(text)
        parsed == parseJson(cleanedJson)
        fallback == Spread(fallbackBlueprint, [legoImageData |-> legoImageData, size |-> targetSize])
    IN  IF ~parsed.ok THEN fallback
        ELSE IF \/ ~HasPartsList(parsed.value)
                \/ ~IsArray(parsed.value.partsList)
                \/ ~HasTitle(parsed.value)
        THEN fallback
        ELSE Spread([legoImageData |-> legoImageData, size |-> targetSize], parsed.value)

\* resizeLegoBlueprint's own try/catch around cleanJsonString, JSON.parse and
\* its validation of the payload
ResizeBlueprintFromText(text, legoImageData, targetSize) ==
    LET cleanedJson == cleanJsonString(text)
        parsed == parseJson(cleanedJson)
        fallback == Spread(fallbackBlueprint, [legoImageData |-> legoImageData, size |-> targetSize])
    IN  IF ~parsed.ok THEN fallback
        ELSE IF \/ ~HasPartsList(parsed.value)
                \/ ~IsArray(parsed.value.partsList)
                \/ ~HasTitle(parsed.value)
        THEN fallback
        ELSE Spread(parsed.value, [legoImageData |-> legoImageData, size |-> targetSize])

\* mutant: the Stage A call is issued before the caller is notified
generateLegoBlueprint_begin_callFirst(run, apiKey) ==
    IF ~apiKey THEN Throw(run, ApiKeyError)
    ELSE [run EXCEPT !.pc = "stageA",
                     !.notes = Append(@, << "Generating ", run.size, " LEGO version..." >>),
                     !.calls = Append(@, "A"),
                     !.trace = @ \o << "generateContent", "setProgress" >>]

\* mutant: the credential is not checked before the first call
generateLegoBlueprint_begin_unchecked(run, apiKey) ==
    [run EXCEPT !.pc = "stageA",
                !.notes = Append(@, << "Generating ", run.size, " LEGO version..." >>),
                !.calls = Append(@, "A"),
                !.trace = @ \o << "setProgress", "generateContent" >>]

\* generateLegoBlueprint up to its first await
generateLegoBlueprint_begin(run, apiKey) ==
    IF ~apiKey THEN Throw(run, ApiKeyError)
    ELSE [run EXCEPT !.pc = "stageA",
                     !.notes = Append(@, << "Generating ", run.size, " LEGO version..." >>),
                     !.calls = Append(@, "A"),
                     !.trace = @ \o << "setProgress", "generateContent" >>]

\* mutant: the missing image is not checked
generateLegoBlueprint_stageA_unchecked(run, resp) ==
    IF ~resp.ok THEN Throw(run, resp.err)
    ELSE LET imagePart == find(resp.parts, "inlineData")
         IN  [run EXCEPT !.pc = "stageB",
                         !.legoImageData =
                             IF imagePart = Null
                             THEN Some(<< "data:", "undefined", ";base64,", "undefined" >>)
                             ELSE Some(DataUrl(imagePart[1].inlineData)),
                         !.notes = Append(@, Str("Analyzing LEGO image for parts...")),
                         !.calls = Append(@, "B"),
                         !.trace = @ \o << "setProgress", "generateContent" >>]

\* generateLegoBlueprint from the Stage A response to its second await
generateLegoBlueprint_stageA(run, resp) ==
    IF ~resp.ok THEN Throw(run, resp.err)
    ELSE LET imagePart == find(resp.parts, "inlineData")
         IN  IF imagePart = Null
             THEN Throw(run, Err(Str("AI failed to generate a LEGO image. Please try a different image.")))
             ELSE [run EXCEPT !.pc = "stageB",
                              !.legoImageData = Some(DataUrl(imagePart[1].inlineData)),
                              !.notes = Append(@, Str("Analyzing LEGO image for parts...")),
                              !.calls = Append(@, "B"),
                              !.trace = @ \o << "setProgress", "generateContent" >>]

\* generateLegoBlueprint from the Stage B response to its return
generateLegoBlueprint_stageB(run, resp) ==
    IF ~resp.ok THEN Throw(run, resp.err)
    ELSE LET textPart == find(resp.parts, "text")
         IN  IF textPart = Null
             THEN Return(run, fallbackResult(run.legoImageData[1], run.size))
             ELSE Return(run, BlueprintFromText(textPart[1].text, run.legoImageData[1], run.size))

resizeLegoBlueprint_begin(run, apiKey) ==
    IF ~apiKey THEN Throw(run, ApiKeyError)
    ELSE [run EXCEPT !.pc = "stageA",
                     !.notes = Append(@, << "Generating ", run.size, " version..." >>),
                     !.calls = Append(@, "A"),
                     !.trace = @ \o << "setProgress", "generateContent" >>]

resizeLegoBlueprint_stageA(run, resp) ==
    IF ~resp.ok THEN Throw(run, resp.err)
    ELSE LET imagePart == find(resp.parts, "inlineData")
         IN  IF imagePart = Null
             THEN Throw(run, Err(<< "AI failed to generate the ", run.size, " LEGO image." >>))
             ELSE [run EXCEPT !.pc = "stageB",
                              !.legoImageData = Some(DataUrl(imagePart[1].inlineData)),
                              !.notes = Append(@, Str("Analyzing new image for parts...")),
                              !.calls = Append(@, "B"),
                              !.trace = @ \o << "setProgress", "generateContent" >>]

resizeLegoBlueprint_stageB(run, resp) ==
    IF ~resp.ok THEN Throw(run, resp.err)
    ELSE LET textPart == find(resp.parts, "text")
         IN  IF textPart = Null
             THEN Return(run, Spread(fallbackBlueprint,
                                     [legoImageData |-> run.legoImageData[1], size |-> run.size]))
             ELSE Return(run, ResizeBlueprintFromText(textPart[1].text, run.legoImageData[1], run.size))

PipelineBegin(run, apiKey) ==
    IF run.entry = "generate" THEN generateLegoBlueprint_begin(run, apiKey)
    ELSE resizeLegoBlueprint_begin(run, apiKey)

PipelineStageA(run, resp) ==
    IF run.entry = "generate" THEN generateLegoBlueprint_stageA(run, resp)
    ELSE resizeLegoBlueprint_stageA(run, resp)

PipelineStageB(run, resp) ==
    IF run.entry = "generate" THEN generateLegoBlueprint_stageB(run, resp)
    ELSE resizeLegoBlueprint_stageB(run, resp)

\* ----------------------------------------------------------------- inputs
EnumAlphabet == {"{", "}", "w", "t", "p"}

SeqsUpTo(S, n) == UNION {[1..k -> S] : k \in 0..n}

ScenarioTexts ==
    { << "{", "t", "p", "{", "}", "m", "}" >>,
      << "w", "{", "t", "p", "{", "}", "}", "w" >>,
      << "{", "t", "p", "{", "}", "{", "}", "}" >>,
      << "{", "t", "p", "{", "}", "i", "s", "}" >>,
      << "{", "i", "s", "t", "p", "}", "w" >>,
      << "{", "e", "p", "{", "}", "}" >>,
      << "{", "t", "n", "}" >>,
      << "{", "t", "z", "}" >>,
      << "{", "t", "p", "{", "}" >>,
      << "w", "}", "{", "t", "p", "{", "}", "}" >> }

Texts == SeqsUpTo(EnumAlphabet, MaxTextLen) \cup ScenarioTexts

ServiceError == Err(Str("fetch failed"))

StageAResponses ==
    { Rejected(ServiceError),
      Resolved(<<>>),
      Resolved(<< TextPart(<< "w" >>) >>),
      Resolved(<< ImagePart("image/png", "Y1") >>),
      Resolved(<< TextPart(<< "w" >>), ImagePart("image/jpeg", "Y2") >>),
      Resolved(<< ImagePart("image/png", "Y1"), ImagePart("image/jpeg", "Y2") >>) }

StageBResponses ==
    { Rejected(ServiceError),
      Resolved(<<>>),
      Resolved(<< ImagePart("image/png", "Y1") >>) }
    \cup { Resolved(<< TextPart(t) >>) : t \in Texts }
    \cup { Resolved(<< TextPart(<<>>), TextPart(t) >>) : t \in ScenarioTexts }


\* ------------------------------------------- bricklinkService (from the spec)
\* The pricing authority's catalog: price and stock signal per pieceId.
Catalog ==
    [id \in {"3001", "3002"} |->
        IF id = "3001" THEN [price |-> 15, stock |-> "in"]
        ELSE [price |-> 11, stock |-> "low"]]

BrickLinkUrl(part) == << "https://www.bricklink.com/v2/catalog/catalogitem.page?P=", part.pieceId >>

\* one lookup: exact match in stock, exact match with limited stock, or no
\* match (the AI's estimate stands in for the price)
ValidatePart(part) ==
    IF part.pieceId \in DOMAIN Catalog
    THEN LET c == Catalog[part.pieceId]
         IN  IF c.stock = "low"
             THEN Spread(part, [realPrice |-> c.price, availability |-> "Rare",
                                brickLinkUrl |-> BrickLinkUrl(part),
                                notes |-> "Limited stock."])
             ELSE Spread(part, [realPrice |-> c.price, availability |-> "Available",
                                brickLinkUrl |-> BrickLinkUrl(part)])
    ELSE Spread(part, [realPrice |-> part.estimatedPrice, availability |-> "Check Alternatives",
                       brickLinkUrl |-> BrickLinkUrl(part),
                       notes |-> "No authoritative match found; price is an estimate."])

ValidationThrows ==
    { Err(Str("BrickLink validation failed")), Err(EmptyString),
      [kind |-> "string", message |-> EmptyString] }

\* the outcomes of one validateAndPriceParts(partsList) call: the validated
\* list, same length and order as the input, or an unhandled exception
validateAndPriceParts(partsList) ==
    { [ok |-> TRUE, err |-> ApiKeyError,
       parts |-> [i \in 1..Len(partsList.items) |-> ValidatePart(partsList.items[i])]] }
    \cup { [ok |-> FALSE, err |-> e, parts |-> <<>>] : e \in ValidationThrows }

\* ------------------------------------------------- handlers: shared pieces
\* mutant: the quantity is left out of the sum
RECURSIVE reduceCost_unitPrices(_, _, _)
reduceCost_unitPrices(validatedParts, i, sum) ==
    IF i > Len(validatedParts) THEN sum
    ELSE reduceCost_unitPrices(validatedParts, i + 1, sum + validatedParts[i].realPrice)

\* validatedParts.reduce((sum, part) => sum + part.realPrice * part.quantity, 0)
RECURSIVE reduceCost(_, _, _)
reduceCost(validatedParts, i, sum) ==
    IF i > Len(validatedParts) THEN sum
    ELSE reduceCost(validatedParts, i + 1,
                    sum + validatedParts[i].realPrice * validatedParts[i].quantity)

enhancedBlueprint(blueprint, validatedParts) ==
    Spread(blueprint, [validatedParts |-> validatedParts,
                       realTotalCost |-> reduceCost(validatedParts, 1, 0)])

\* err instanceof Error ? err.message : fallbackMessage
ErrorMessage(err, fallbackMessage) ==
    IF err.kind = "Error" THEN err.message ELSE fallbackMessage

\* JS truthiness of a "string | null" state
Truthy(v) == v # Null /\ v[1] # EmptyString

\* files: type is the MIME type split after its first "/"
UserFiles ==
    { [name |-> "photo.png", type |-> << "image/", "png" >>],
      [name |-> "notes.txt", type |-> << "text/", "plain" >>] }

DemoFile == [name |-> "house-demo.jpg", type |-> << "image/", "jpeg" >>]

startsWith(str, prefix) == Len(str) >= 1 /\ str[1] = prefix

createObjectURL(file) == << "blob:", file.name >>

SessionStageA ==
    { Rejected(ServiceError), Rejected(Err(EmptyString)), Resolved(<<>>),
      Resolved(<< ImagePart("image/png", "Y1") >>) }

SessionStageB ==
    { Rejected(ServiceError),
      Resolved(<< TextPart(<< "w", "{", "t", "p", "{", "}", "i", "s", "}", "w" >>) >>),
      Resolved(<< TextPart(<< "w" >>) >>) }

\* One asynchronous run of the try-body of handleConvertClick / handleResize:
\* pc is the await it is suspended at.  len is blueprints.length of the
\* render whose handler started it.
NewTask(entry, size, len) ==
    [len |-> len, pc |-> "encode", run |-> NewRun(entry, size),
     blueprint |-> Null, err |-> Null]

Failed(task, e) == [task EXCEPT !.pc = "failed", !.err = Some(e)]

\* the tasks one step later, one per outcome of the awaited operation
TaskAdvance(task, apiKey) ==
    CASE task.pc = "encode" ->
           { Failed(task, ReaderErrorEvent) }
           \cup { LET r == PipelineBegin(task.run, apiKey)
                  IN  IF r.pc = "thrown" THEN Failed([task EXCEPT !.run = r], r.err[1])
                      ELSE [task EXCEPT !.pc = "stageA", !.run = r] }
      [] task.pc = "stageA" ->
           { LET r == PipelineStageA(task.run, resp)
             IN  IF r.pc = "thrown" THEN Failed([task EXCEPT !.run = r], r.err[1])
                 ELSE [task EXCEPT !.pc = "stageB", !.run = r]
             : resp \in SessionStageA }
      [] task.pc = "stageB" ->
           { LET r == PipelineStageB(task.run, resp)
             IN  IF r.pc = "thrown" THEN Failed([task EXCEPT !.run = r], r.err[1])
                 ELSE [task EXCEPT !.pc = "validate", !.run = r]
             : resp \in SessionStageB }
      [] task.pc = "validate" ->
           { IF v.ok
             THEN [task EXCEPT !.pc = "done",
                               !.blueprint = Some(enhancedBlueprint(task.run.result[1], v.parts))]
             ELSE Failed(task, v.err)
             : v \in validateAndPriceParts(task.run.result[1].partsList) }
      [] OTHER -> {}

\* -------------------------------------------------------------- variables
VARIABLES
    \* App
    selectedFile, previewUrl, legoBlueprint, isLoading, isDemoLoading,
    progressMessage, error, selectedSize,
    \* the files held by the file input of the mounted ImageUploader
    inputFiles,
    \* the mounted LegoResult (mounted = FALSE: no instance)
    mounted, blueprints, currentIndex, isResizing, resizeProgress, resizeError,
    \* asynchronous work in flight
    convertTask,    \* the running handleConvertClick, or Null
    demoTask,       \* TRUE while handleDemoClick awaits its fetch
    resizeTask,     \* the running handleResize of the mounted LegoResult, or Null
    orphans,        \* running handleResize calls of unmounted LegoResult instances
    apiKey,         \* process.env.API_KEY is set
    \* a pipeline call on its own (SpecPipeline)
    h

appVars == << selectedFile, previewUrl, legoBlueprint, isLoading, isDemoLoading,
              progressMessage, error, selectedSize >>

resultVars == << mounted, blueprints, currentIndex, isResizing, resizeProgress, resizeError >>

taskVars == << convertTask, demoTask, resizeTask, orphans, apiKey >>

vars == << appVars, inputFiles, resultVars, taskVars, h >>

InitApp ==
    /\ selectedFile = Null
    /\ previewUrl = Null
    /\ legoBlueprint = Null
    /\ isLoading = FALSE
    /\ isDemoLoading = FALSE
    /\ progressMessage = EmptyString
    /\ error = Null
    /\ selectedSize = "Medium"

InitUploader == inputFiles = Null

InitResult ==
    /\ mounted = FALSE
    /\ blueprints = <<>>
    /\ currentIndex = 0
    /\ isResizing = FALSE
    /\ resizeProgress = EmptyString
    /\ resizeError = Null

InitTasks ==
    /\ convertTask = Null
    /\ demoTask = FALSE
    /\ resizeTask = Null
    /\ orphans = <<>>

IdleHarness ==
    [apiKey |-> TRUE, run |-> NewRun("generate", "Medium"), respA |-> Null,
     respB |-> Null, cleaned |-> Null]

\* ------------------------------------- the pipeline on its own (SpecPipeline)
\* h is one call of generateLegoBlueprint or resizeLegoBlueprint with the
\* responses the service gave it; cleaned is the string handed to JSON.parse.
InitPipeline ==
    /\ InitApp /\ InitUploader /\ InitResult /\ InitTasks
    /\ apiKey = TRUE
    /\ h \in { [apiKey |-> k, run |-> NewRun(e, z), respA |-> Null, respB |-> Null,
             cleaned |-> Null]
            : k \in BOOLEAN, e \in {"generate", "resize"}, z \in Sizes }

CallPipeline ==
    /\ h.run.pc = "start"
    /\ h' = [h EXCEPT !.run = PipelineBegin(h.run, h.apiKey)]
    /\ UNCHANGED << appVars, inputFiles, resultVars, taskVars >>

StageAResponds ==
    /\ h.run.pc = "stageA"
    /\ \E resp \in StageAResponses :
         h' = [h EXCEPT !.run = PipelineStageA(h.run, resp), !.respA = Some(resp)]
    /\ UNCHANGED << appVars, inputFiles, resultVars, taskVars >>

StageBResponds ==
    /\ h.run.pc = "stageB"
    /\ \E resp \in StageBResponses :
         LET textPart == find(resp.parts, "text")
         IN  h' = [h EXCEPT !.run = PipelineStageB(h.run, resp),
                            !.respB = Some(resp),
                            !.cleaned = IF resp.ok /\ textPart # Null
                                        THEN Some(cleanJsonString(textPart[1].text))
                                        ELSE Null]
    /\ UNCHANGED << appVars, inputFiles, resultVars, taskVars >>

NextPipeline == CallPipeline \/ StageAResponds \/ StageBResponds

SpecPipeline == InitPipeline /\ [][NextPipeline]_vars

\* ============================================================ the session
Init ==
    /\ InitApp /\ InitUploader /\ InitResult /\ InitTasks
    /\ apiKey \in BOOLEAN
    /\ h = IdleHarness

\* which of the top-level panels App renders
UploadPanel == legoBlueprint = Null /\ ~isLoading /\ ~Truthy(error)

ErrorPanel == Truthy(error)

ResultView == legoBlueprint # Null /\ ~isLoading

Last(seq) == seq[Len(seq)]

RemoveAt(seq, i) == SubSeq(seq, 1, i - 1) \o SubSeq(seq, i + 1, Len(seq))

\* ------------------------------------------------------------------- App
\* the size buttons of the upload panel
setSelectedSize ==
    /\ UploadPanel
    /\ \E size \in Sizes : selectedSize' = size
    /\ UNCHANGED << selectedFile, previewUrl, legoBlueprint, isLoading, isDemoLoading,
                    progressMessage, error, inputFiles, resultVars, taskVars, h >>

\* App.handleFileSelect, with the preview effect of the next render
handleFileSelect(file) ==
    /\ selectedFile' = Some(file)
    /\ previewUrl' = Some(createObjectURL(file))
    /\ legoBlueprint' = Null
    /\ error' = Null

\* mutant: the file's type is not checked
handleFileChange_unchecked ==
    /\ UploadPanel
    /\ selectedFile = Null
    /\ ~(isLoading \/ isDemoLoading)
    /\ \E file \in UserFiles :
         /\ handleFileSelect(file)
         /\ inputFiles' = Null
    /\ UNCHANGED << isLoading, isDemoLoading, progressMessage, selectedSize,
                    resultVars, taskVars, h >>

\* ImageUploader.handleFileChange, reached from the file input (onInputChange,
\* the input then holds the file) and from handleDrop.  Once a file is
\* selected App no longer renders the uploader and its input is gone.
handleFileChange ==
    /\ UploadPanel
    /\ selectedFile = Null
    /\ ~(isLoading \/ isDemoLoading)
    /\ \E file \in UserFiles, dropped \in BOOLEAN :
         IF startsWith(file.type, "image/")
         THEN /\ handleFileSelect(file)
              /\ inputFiles' = Null
         ELSE /\ UNCHANGED << selectedFile, previewUrl, legoBlueprint, error >>
              \* alert('Please upload a valid image file (PNG, JPG, WEBP, etc.).')
              /\ inputFiles' = IF dropped THEN inputFiles ELSE Some(file)
    /\ UNCHANGED << isLoading, isDemoLoading, progressMessage, selectedSize,
                    resultVars, taskVars, h >>

handleDemoClick ==
    /\ UploadPanel
    /\ selectedFile = Null
    /\ ~(isLoading \/ isDemoLoading)
    /\ isDemoLoading' = TRUE
    /\ error' = Null
    /\ demoTask' = TRUE
    /\ UNCHANGED << selectedFile, previewUrl, legoBlueprint, isLoading, progressMessage,
                    selectedSize, inputFiles, resultVars, convertTask, resizeTask,
                    orphans, apiKey, h >>

\* handleDemoClick after its fetch / blob awaits
handleDemoClick_fetched ==
    /\ demoTask
    /\ demoTask' = FALSE
    /\ isDemoLoading' = FALSE
    /\ \/ handleFileSelect(DemoFile)
       \/ /\ error' = Some(Str("Could not load the demo image. Please check your network connection."))
          /\ UNCHANGED << selectedFile, previewUrl, legoBlueprint >>
    \* in both cases the upload step is no longer rendered
    /\ inputFiles' = Null
    /\ UNCHANGED << isLoading, progressMessage, selectedSize, resultVars,
                    convertTask, resizeTask, orphans, apiKey, h >>

clearSelection ==
    /\ UploadPanel
    /\ selectedFile # Null
    /\ selectedFile' = Null
    /\ previewUrl' = Null
    /\ UNCHANGED << legoBlueprint, isLoading, isDemoLoading, progressMessage, error,
                    selectedSize, inputFiles, resultVars, taskVars, h >>

\* mutant: the run is started with the initial size, not the selected one
handleConvertClick_defaultSize ==
    /\ UploadPanel
    /\ selectedFile # Null
    /\ isLoading' = TRUE
    /\ error' = Null
    /\ legoBlueprint' = Null
    /\ progressMessage' = Str("Preparing image...")
    /\ convertTask' = Some(NewTask("generate", "Medium", 0))
    /\ UNCHANGED << selectedFile, previewUrl, isDemoLoading, selectedSize, inputFiles,
                    resultVars, demoTask, resizeTask, orphans, apiKey, h >>

\* mutant: the selection is dropped once the conversion is started
handleConvertClick_dropsFile ==
    /\ UploadPanel
    /\ selectedFile # Null
    /\ isLoading' = TRUE
    /\ error' = Null
    /\ legoBlueprint' = Null
    /\ progressMessage' = Str("Preparing image...")
    /\ convertTask' = Some(NewTask("generate", selectedSize, 0))
    /\ selectedFile' = Null
    /\ previewUrl' = Null
    /\ UNCHANGED << isDemoLoading, selectedSize, inputFiles,
                    resultVars, demoTask, resizeTask, orphans, apiKey, h >>

handleConvertClick ==
    /\ UploadPanel
    /\ selectedFile # Null
    /\ isLoading' = TRUE
    /\ error' = Null
    /\ legoBlueprint' = Null
    /\ progressMessage' = Str("Preparing image...")
    /\ convertTask' = Some(NewTask("generate", selectedSize, 0))
    /\ UNCHANGED << selectedFile, previewUrl, isDemoLoading, selectedSize, inputFiles,
                    resultVars, demoTask, resizeTask, orphans, apiKey, h >>

\* mutant: the progress message is cleared on success only (no finally block)
ConvertApply_noFinally(t) ==
    CASE t.pc = "failed" ->
           /\ error' = Some(ErrorMessage(t.err[1], Str("An unknown error occurred. Please try again.")))
           /\ isLoading' = FALSE
           /\ convertTask' = Null
           /\ UNCHANGED << legoBlueprint, progressMessage, resultVars >>
      [] t.pc = "done" ->
           /\ legoBlueprint' = t.blueprint
           /\ isLoading' = FALSE
           /\ progressMessage' = EmptyString
           /\ convertTask' = Null
           /\ mounted' = TRUE
           /\ blueprints' = << t.blueprint[1] >>
           /\ currentIndex' = 0
           /\ isResizing' = FALSE
           /\ resizeProgress' = EmptyString
           /\ resizeError' = Null
           /\ UNCHANGED error
      [] t.pc = "validate" ->
           /\ progressMessage' = Str("Validating parts with BrickLink...")
           /\ convertTask' = Some(t)
           /\ UNCHANGED << legoBlueprint, isLoading, error, resultVars >>
      [] OTHER ->
           /\ progressMessage' = Last(t.run.notes)
           /\ convertTask' = Some(t)
           /\ UNCHANGED << legoBlueprint, isLoading, error, resultVars >>

\* mutant: a failed conversion leaves isLoading set
ConvertApply_staysLoading(t) ==
    CASE t.pc = "failed" ->
           /\ error' = Some(ErrorMessage(t.err[1], Str("An unknown error occurred. Please try again.")))
           /\ progressMessage' = EmptyString
           /\ convertTask' = Null
           /\ UNCHANGED << legoBlueprint, isLoading, resultVars >>
      [] t.pc = "done" ->
           /\ legoBlueprint' = t.blueprint
           /\ isLoading' = FALSE
           /\ progressMessage' = EmptyString
           /\ convertTask' = Null
           /\ mounted' = TRUE
           /\ blueprints' = << t.blueprint[1] >>
           /\ currentIndex' = 0
           /\ isResizing' = FALSE
           /\ resizeProgress' = EmptyString
           /\ resizeError' = Null
           /\ UNCHANGED error
      [] t.pc = "validate" ->
           /\ progressMessage' = Str("Validating parts with BrickLink...")
           /\ convertTask' = Some(t)
           /\ UNCHANGED << legoBlueprint, isLoading, error, resultVars >>
      [] OTHER ->
           /\ progressMessage' = Last(t.run.notes)
           /\ convertTask' = Some(t)
           /\ UNCHANGED << legoBlueprint, isLoading, error, resultVars >>

\* what the rest of handleConvertClick does when its task reaches t
ConvertApply(t) ==
    CASE t.pc = "failed" ->
           /\ error' = Some(ErrorMessage(t.err[1], Str("An unknown error occurred. Please try again.")))
           /\ isLoading' = FALSE
           /\ progressMessage' = EmptyString
           /\ convertTask' = Null
           /\ UNCHANGED << legoBlueprint, resultVars >>
      [] t.pc = "done" ->
           /\ legoBlueprint' = t.blueprint
           /\ isLoading' = FALSE
           /\ progressMessage' = EmptyString
           /\ convertTask' = Null
           \* App now renders <LegoResult initialBlueprint={legoBlueprint} />
           /\ mounted' = TRUE
           /\ blueprints' = << t.blueprint[1] >>
           /\ currentIndex' = 0
           /\ isResizing' = FALSE
           /\ resizeProgress' = EmptyString
           /\ resizeError' = Null
           /\ UNCHANGED error
      [] t.pc = "validate" ->
           /\ progressMessage' = Str("Validating parts with BrickLink...")
           /\ convertTask' = Some(t)
           /\ UNCHANGED << legoBlueprint, isLoading, error, resultVars >>
      [] OTHER ->
           /\ progressMessage' = Last(t.run.notes)
           /\ convertTask' = Some(t)
           /\ UNCHANGED << legoBlueprint, isLoading, error, resultVars >>

ConvertContinue(pc) ==
    /\ convertTask # Null
    /\ convertTask[1].pc = pc
    /\ \E t \in TaskAdvance(convertTask[1], apiKey) : ConvertApply(t)
    /\ UNCHANGED << selectedFile, previewUrl, isDemoLoading, selectedSize, inputFiles,
                    demoTask, resizeTask, orphans, apiKey, h >>

\* handleConvertClick resumed after await fileToBase64
handleConvertClick_encoded == ConvertContinue("encode")

\* ... after the Stage A generateContent inside generateLegoBlueprint
handleConvertClick_stageA == ConvertContinue("stageA")

\* ... after the Stage B generateContent inside generateLegoBlueprint
handleConvertClick_stageB == ConvertContinue("stageB")

\* ... after await validateAndPriceParts
handleConvertClick_validated == ConvertContinue("validate")

\* A handleResize whose LegoResult was unmounted: its blueprints snapshot is
\* only read by setCurrentIndex, a no-op from then on.
Detached(task) == [task EXCEPT !.len = 0]

\* mutant: the error is not cleared
handleReset_keepsError ==
    /\ ErrorPanel \/ ResultView
    /\ resizeTask # Null => Len(orphans) < MaxStale
    /\ selectedFile' = Null
    /\ previewUrl' = Null
    /\ legoBlueprint' = Null
    /\ isLoading' = FALSE
    /\ isDemoLoading' = FALSE
    /\ UNCHANGED error
    /\ progressMessage' = EmptyString
    /\ selectedSize' = "Medium"
    \* LegoResult is unmounted; a handleResize it started keeps running
    /\ mounted' = FALSE
    /\ blueprints' = <<>>
    /\ currentIndex' = 0
    /\ isResizing' = FALSE
    /\ resizeProgress' = EmptyString
    /\ resizeError' = Null
    /\ orphans' = IF resizeTask # Null THEN Append(orphans, Detached(resizeTask[1])) ELSE orphans
    /\ resizeTask' = Null
    /\ UNCHANGED << inputFiles, convertTask, demoTask, apiKey, h >>

handleReset ==
    /\ ErrorPanel \/ ResultView
    /\ resizeTask # Null => Len(orphans) < MaxStale
    /\ selectedFile' = Null
    /\ previewUrl' = Null
    /\ legoBlueprint' = Null
    /\ isLoading' = FALSE
    /\ isDemoLoading' = FALSE
    /\ error' = Null
    /\ progressMessage' = EmptyString
    /\ selectedSize' = "Medium"
    \* LegoResult is unmounted; a handleResize it started keeps running
    /\ mounted' = FALSE
    /\ blueprints' = <<>>
    /\ currentIndex' = 0
    /\ isResizing' = FALSE
    /\ resizeProgress' = EmptyString
    /\ resizeError' = Null
    /\ orphans' = IF resizeTask # Null THEN Append(orphans, Detached(resizeTask[1])) ELSE orphans
    /\ resizeTask' = Null
    /\ UNCHANGED << inputFiles, convertTask, demoTask, apiKey, h >>

\* ------------------------------------------------------------ LegoResult
\* mutant: only the displayed version counts as generated
isGenerated_currentOnly(size) == blueprints[currentIndex + 1].size = size

isGenerated(size) == \E i \in 1..Len(blueprints) : blueprints[i].size = size

handleResize ==
    /\ ResultView /\ mounted
    /\ \E targetSize \in Sizes :
         /\ ~(isResizing \/ isGenerated(targetSize))
         /\ ~(isResizing \/ selectedFile = Null)
         /\ isResizing' = TRUE
         /\ resizeError' = Null
         /\ resizeTask' = Some(NewTask("resize", targetSize, Len(blueprints)))
    /\ UNCHANGED << appVars, inputFiles, mounted, blueprints, currentIndex, resizeProgress,
                    convertTask, demoTask, orphans, apiKey, h >>

\* mutant: the new version is put first
ResizeApply_prepend(t) ==
    CASE t.pc = "failed" ->
           /\ resizeError' = Some(ErrorMessage(t.err[1], Str("An unknown error occurred during resize.")))
           /\ isResizing' = FALSE
           /\ resizeProgress' = EmptyString
           /\ resizeTask' = Null
           /\ UNCHANGED << blueprints, currentIndex >>
      [] t.pc = "done" ->
           /\ blueprints' = << t.blueprint[1] >> \o blueprints
           /\ currentIndex' = t.len
           /\ isResizing' = FALSE
           /\ resizeProgress' = EmptyString
           /\ resizeTask' = Null
           /\ UNCHANGED resizeError
      [] t.pc = "validate" ->
           /\ resizeProgress' = Str("Validating new parts...")
           /\ resizeTask' = Some(t)
           /\ UNCHANGED << blueprints, currentIndex, isResizing, resizeError >>
      [] OTHER ->
           /\ resizeProgress' = Last(t.run.notes)
           /\ resizeTask' = Some(t)
           /\ UNCHANGED << blueprints, currentIndex, isResizing, resizeError >>

\* mutant: the cleanup runs on success only (no finally block)
ResizeApply_noFinally(t) ==
    CASE t.pc = "failed" ->
           /\ resizeError' = Some(ErrorMessage(t.err[1], Str("An unknown error occurred during resize.")))
           /\ resizeTask' = Null
           /\ UNCHANGED << blueprints, currentIndex, isResizing, resizeProgress >>
      [] t.pc = "done" ->
           /\ blueprints' = Append(blueprints, t.blueprint[1])
           /\ currentIndex' = t.len
           /\ isResizing' = FALSE
           /\ resizeProgress' = EmptyString
           /\ resizeTask' = Null
           /\ UNCHANGED resizeError
      [] t.pc = "validate" ->
           /\ resizeProgress' = Str("Validating new parts...")
           /\ resizeTask' = Some(t)
           /\ UNCHANGED << blueprints, currentIndex, isResizing, resizeError >>
      [] OTHER ->
           /\ resizeProgress' = Last(t.run.notes)
           /\ resizeTask' = Some(t)
           /\ UNCHANGED << blueprints, currentIndex, isResizing, resizeError >>

\* mutant: the selection is left where it was
ResizeApply_keepsSelection(t) ==
    CASE t.pc = "failed" ->
           /\ resizeError' = Some(ErrorMessage(t.err[1], Str("An unknown error occurred during resize.")))
           /\ isResizing' = FALSE
           /\ resizeProgress' = EmptyString
           /\ resizeTask' = Null
           /\ UNCHANGED << blueprints, currentIndex >>
      [] t.pc = "done" ->
           /\ blueprints' = Append(blueprints, t.blueprint[1])
           /\ UNCHANGED currentIndex
           /\ isResizing' = FALSE
           /\ resizeProgress' = EmptyString
           /\ resizeTask' = Null
           /\ UNCHANGED resizeError
      [] t.pc = "validate" ->
           /\ resizeProgress' = Str("Validating new parts...")
           /\ resizeTask' = Some(t)
           /\ UNCHANGED << blueprints, currentIndex, isResizing, resizeError >>
      [] OTHER ->
           /\ resizeProgress' = Last(t.run.notes)
           /\ resizeTask' = Some(t)
           /\ UNCHANGED << blueprints, currentIndex, isResizing, resizeError >>

\* what the rest of handleResize does when its task reaches t
ResizeApply(t) ==
    CASE t.pc = "failed" ->
           /\ resizeError' = Some(ErrorMessage(t.err[1], Str("An unknown error occurred during resize.")))
           /\ isResizing' = FALSE
           /\ resizeProgress' = EmptyString
           /\ resizeTask' = Null
           /\ UNCHANGED << blueprints, currentIndex >>
      [] t.pc = "done" ->
           /\ blueprints' = Append(blueprints, t.blueprint[1])
           /\ currentIndex' = t.len
           /\ isResizing' = FALSE
           /\ resizeProgress' = EmptyString
           /\ resizeTask' = Null
           /\ UNCHANGED resizeError
      [] t.pc = "validate" ->
           /\ resizeProgress' = Str("Validating new parts...")
           /\ resizeTask' = Some(t)
           /\ UNCHANGED << blueprints, currentIndex, isResizing, resizeError >>
      [] OTHER ->
           /\ resizeProgress' = Last(t.run.notes)
           /\ resizeTask' = Some(t)
           /\ UNCHANGED << blueprints, currentIndex, isResizing, resizeError >>

ResizeContinue(pc) ==
    /\ resizeTask # Null
    /\ resizeTask[1].pc = pc
    /\ \E t \in TaskAdvance(resizeTask[1], apiKey) : ResizeApply(t)
    /\ UNCHANGED << appVars, inputFiles, mounted, convertTask, demoTask, orphans, apiKey, h >>

handleResize_encoded == ResizeContinue("encode")

handleResize_stageA == ResizeContinue("stageA")

handleResize_stageB == ResizeContinue("stageB")

handleResize_validated == ResizeContinue("validate")

\* mutant: a detached handleResize writes to the LegoResult now mounted
handleResize_unmounted_shared ==
    /\ \E i \in 1..Len(orphans) :
         \E t \in TaskAdvance(orphans[i], apiKey) :
            /\ orphans' = IF t.pc \in {"done", "failed"}
                          THEN RemoveAt(orphans, i)
                          ELSE [orphans EXCEPT ![i] = t]
            /\ blueprints' = IF t.pc = "done" /\ mounted
                             THEN Append(blueprints, t.blueprint[1])
                             ELSE blueprints
            /\ resizeError' = IF t.pc = "failed" /\ mounted
                              THEN Some(ErrorMessage(t.err[1], Str("An unknown error occurred during resize.")))
                              ELSE resizeError
    /\ UNCHANGED << appVars, inputFiles, mounted, currentIndex, isResizing, resizeProgress,
                    convertTask, demoTask, resizeTask, apiKey, h >>

\* a handleResize of an unmounted LegoResult resumes: its state setters are no-ops
handleResize_unmounted ==
    /\ \E i \in 1..Len(orphans) :
         \E t \in TaskAdvance(orphans[i], apiKey) :
            orphans' = IF t.pc \in {"done", "failed"}
                       THEN RemoveAt(orphans, i)
                       ELSE [orphans EXCEPT ![i] = t]
    /\ UNCHANGED << appVars, inputFiles, resultVars, convertTask, demoTask, resizeTask,
                    apiKey, h >>

\* mutant: the buttons are numbered from 1 and pass their number
setCurrentIndex_offByOne ==
    /\ ResultView /\ mounted
    /\ selectedFile # Null
    /\ Len(blueprints) > 1
    /\ \E index \in 1..Len(blueprints) : currentIndex' = index
    /\ UNCHANGED << appVars, inputFiles, mounted, blueprints, isResizing, resizeProgress,
                    resizeError, taskVars, h >>

\* LegoVisualizer: the version buttons V1..Vn
setCurrentIndex ==
    /\ ResultView /\ mounted
    /\ selectedFile # Null
    /\ Len(blueprints) > 1
    /\ \E index \in 0..(Len(blueprints) - 1) : currentIndex' = index
    /\ UNCHANGED << appVars, inputFiles, mounted, blueprints, isResizing, resizeProgress,
                    resizeError, taskVars, h >>

Next ==
    \/ setSelectedSize
    \/ handleFileChange
    \/ handleDemoClick
    \/ handleDemoClick_fetched
    \/ clearSelection
    \/ handleConvertClick
    \/ handleConvertClick_encoded
    \/ handleConvertClick_stageA
    \/ handleConvertClick_stageB
    \/ handleConvertClick_validated
    \/ handleReset
    \/ handleResize
    \/ handleResize_encoded
    \/ handleResize_stageA
    \/ handleResize_stageB
    \/ handleResize_validated
    \/ handleResize_unmounted
    \/ setCurrentIndex

Spec == Init /\ [][Next]_vars

\* ======================================================== pipeline claims
\* What the claims say, stated without the operators of the model above.
Min(S) == CHOOSE x \in S : \A y \in S : x <= y

Max(S) == CHOOSE x \in S : \A y \in S : x >= y

Positions(str, ch) == {i \in 1..Len(str) : str[i] = ch}

\* the first inline image of a response, as a data URL, or Null
InlineIndexes(parts) == {i \in 1..Len(parts) : "inlineData" \in DOMAIN parts[i]}

StageAImage(resp) ==
    IF resp.ok /\ InlineIndexes(resp.parts) # {}
    THEN LET d == resp.parts[Min(InlineIndexes(resp.parts))].inlineData
         IN  Some(<< "data:", d.mimeType, ";base64,", d.data >>)
    ELSE Null

\* the first non-empty text of a response, or Null
TextIndexes(parts) ==
    {i \in 1..Len(parts) : "text" \in DOMAIN parts[i] /\ parts[i].text # <<>>}

StageBText(resp) ==
    IF resp.ok /\ TextIndexes(resp.parts) # {}
    THEN Some(resp.parts[Min(TextIndexes(resp.parts))].text)
    ELSE Null

ExpectedFallback(image, size) ==
    [title |-> "My Custom Brick Model",
     partsList |-> [kind |-> "array", items |-> FallbackParts],
     totalPieces |-> 33,
     estimatedCost |-> 350,
     difficultyLevel |-> "Intermediate",
     buildTime |-> "30-45 minutes",
     description |-> "A creative brick model. The AI was unable to provide a detailed parts list, so this is an example breakdown.",
     legoImageData |-> image,
     size |-> size]

\* the substring from the first "{" through the last "}" inclusive
BracePair(str) ==
    Positions(str, "{") # {} /\ Positions(str, "}") # {}
        /\ Max(Positions(str, "}")) >= Min(Positions(str, "{"))

Braced(str) == SubSeq(str, Min(Positions(str, "{")), Max(Positions(str, "}")))

StageAAnswered == h.respA # Null /\ h.respA[1].ok

StageBAnswered == h.respB # Null /\ h.respB[1].ok

\* the payload JSON.parse produced in this run, when it produced one
PayloadParsed ==
    /\ StageBAnswered
    /\ StageBText(h.respB[1]) # Null
    /\ h.cleaned # Null
    /\ parseJson(h.cleaned[1]).ok

Payload == parseJson(h.cleaned[1]).value

\* C2: a Stage A response without an inline image makes the run throw: no
\* Blueprint (not even the fallback) is returned and Stage B is never called.
C2_NoImageIsFatal ==
    (StageAAnswered /\ StageAImage(h.respA[1]) = Null)
        => /\ h.run.pc = "thrown"
           /\ h.run.err # Null
           /\ h.run.result = Null
           /\ h.run.calls = << "A" >>
           /\ h.respB = Null

C2_Witness ==
    /\ StageAAnswered
    /\ StageAImage(h.respA[1]) = Null
    /\ h.respA[1].parts # <<>>
    /\ h.run.entry = "resize"
    /\ h.run.pc = "thrown"

\* C3: with a Stage A image, a Stage B answer with no text, with text without
\* "{", or with text whose extracted substring does not parse, returns the
\* fixed fallback Blueprint carrying Stage A's image and the requested size.
Unparseable ==
    \/ StageBText(h.respB[1]) = Null
    \/ Positions(StageBText(h.respB[1])[1], "{") = {}
    \/ ~parseJson(h.cleaned[1]).ok

C3_UnparseableGivesFallback ==
    (StageAAnswered /\ StageAImage(h.respA[1]) # Null /\ StageBAnswered /\ Unparseable)
        => /\ h.run.pc = "returned"
           /\ h.run.err = Null
           /\ h.run.result = Some(ExpectedFallback(StageAImage(h.respA[1])[1], h.run.size))

C3_Witness ==
    /\ StageBAnswered
    /\ StageBText(h.respB[1]) # Null
    /\ Positions(StageBText(h.respB[1])[1], "{") # {}
    /\ ~parseJson(h.cleaned[1]).ok
    /\ h.run.size = "Large"
    /\ h.run.pc = "returned"

\* C4 as stated: a parsed payload without a title or without a non-empty
\* parts list (missing, not a list, or an empty list) gives the fallback.
LacksTitle(o) == "title" \notin DOMAIN o \/ o.title = ""

LacksList(o) == "partsList" \notin DOMAIN o \/ o.partsList.kind # "array"

EmptyList(o) ==
    "partsList" \in DOMAIN o /\ o.partsList.kind = "array" /\ o.partsList.items = <<>>

C4_Original ==
    (PayloadParsed /\ (LacksTitle(Payload) \/ LacksList(Payload) \/ EmptyList(Payload)))
        => h.run.result = Some(ExpectedFallback(StageAImage(h.respA[1])[1], h.run.size))

\* C4 (amended): a parsed payload without a title or without a parts list
\* that is a list (missing, null, or not a list) gives the fallback; a
\* payload with a title and an empty list is returned as parsed.
C4_MissingFieldsGiveFallback ==
    /\ (PayloadParsed /\ (LacksTitle(Payload) \/ LacksList(Payload)))
          => h.run.result = Some(ExpectedFallback(StageAImage(h.respA[1])[1], h.run.size))
    /\ (PayloadParsed /\ ~LacksTitle(Payload) /\ EmptyList(Payload))
          => /\ h.run.pc = "returned"
             /\ h.run.result[1].title = Payload.title
             /\ h.run.result[1].partsList.items = <<>>

C4_Witness ==
    /\ PayloadParsed
    /\ ~LacksTitle(Payload)
    /\ "partsList" \in DOMAIN Payload
    /\ Payload.partsList.kind = "string"
    /\ h.run.pc = "returned"

\* C5: every returned Blueprint, parsed or fallback, has legoImageData equal to
\* Stage A's image of this run and size equal to the requested size, whatever
\* legoImageData / size the parsed payload carries.
C5_AuthoritativeImageAndSize ==
    h.run.pc = "returned"
        => /\ h.run.result # Null
           /\ h.run.result[1].legoImageData = StageAImage(h.respA[1])[1]
           /\ h.run.result[1].size = h.run.size

C5_Witness ==
    /\ PayloadParsed
    /\ "legoImageData" \in DOMAIN Payload
    /\ "size" \in DOMAIN Payload
    /\ Payload.size # h.run.size
    /\ h.run.pc = "returned"
    /\ h.run.result[1].title = "T"

\* C6: when the text has a "{" and its last "}" is not before its first "{",
\* the parser is handed exactly the substring from the first "{" through the
\* last "}", so a valid object between brace-free prose parses to that object;
\* otherwise the repair yields the empty object string.
ProseWrapped(str, a, b) ==
    /\ \A i \in 1..Len(str) : (i < a \/ i > b) => str[i] \notin {"{", "}"}
    /\ parseJson(SubSeq(str, a, b)).ok

C6_RepairExtractsBraces ==
    (StageBAnswered /\ StageBText(h.respB[1]) # Null)
        => LET str == StageBText(h.respB[1])[1]
           IN  /\ h.cleaned # Null
               /\ BracePair(str) => h.cleaned[1] = Braced(str)
               /\ ~BracePair(str) => h.cleaned[1] = << "{", "}" >>
               /\ \A a \in 1..Len(str) : \A b \in a..Len(str) :
                     ProseWrapped(str, a, b)
                        => /\ parseJson(h.cleaned[1]).ok
                           /\ parseJson(h.cleaned[1]).value = parseJson(SubSeq(str, a, b)).value

C6_Witness ==
    /\ StageBAnswered
    /\ StageBText(h.respB[1]) # Null
    /\ LET str == StageBText(h.respB[1])[1]
       IN  /\ str[1] = "w" /\ str[Len(str)] = "w"
           /\ Cardinality(Positions(str, "{")) = 2
           /\ BracePair(str)
           /\ h.cleaned[1] = Braced(str)
    /\ h.run.pc = "returned"
    /\ h.run.result[1].title = "T"

\* C16: generateLegoBlueprint and resizeLegoBlueprint, given the same size,
\* the same credential and the same Stage A and Stage B responses, stop at
\* the same point, return the same Blueprint or both throw, and have made
\* the same calls and as many progress notifications in the same order.
\* The run of one entry point replayed on what the call under test received.
Replay(entry) ==
    LET called == PipelineBegin(NewRun(entry, h.run.size), h.apiKey)
        afterA == IF called.pc = "stageA" /\ h.respA # Null
                  THEN PipelineStageA(called, h.respA[1]) ELSE called
    IN  IF afterA.pc = "stageB" /\ h.respB # Null
        THEN PipelineStageB(afterA, h.respB[1]) ELSE afterA

C16_EntryPointsAgree ==
    h.run.pc # "start" =>
        LET generated == Replay("generate")
            resized == Replay("resize")
        IN  /\ Replay(h.run.entry) = h.run
            /\ generated.pc = resized.pc
            /\ generated.result = resized.result
            /\ (generated.err = Null) <=> (resized.err = Null)
            /\ generated.legoImageData = resized.legoImageData
            /\ generated.calls = resized.calls
            /\ Len(generated.notes) = Len(resized.notes)
            /\ generated.trace = resized.trace

C16_Witness ==
    /\ h.run.entry = "resize"
    /\ h.run.pc = "returned"
    /\ PayloadParsed
    /\ "size" \in DOMAIN Payload /\ Payload.size # h.run.size
    /\ h.run.result[1].title = "T"
    /\ Replay("generate").result = h.run.result
    /\ Replay("generate").notes # h.run.notes

\* C17: every run notifies the caller before it issues the Stage A call and
\* again before it issues the Stage B call, in that order; the second
\* notification is made only after Stage A answered with an image; the step
\* in which the run returns or throws makes no notification, and none
\* follows it.
FullTrace == << "setProgress", "generateContent", "setProgress", "generateContent" >>

NotifiedBeforeEachCall ==
    LET run == h.run
    IN  /\ Len(run.trace) \in {0, 2, 4}
        /\ run.trace = SubSeq(FullTrace, 1, Len(run.trace))
        /\ 2 * Len(run.notes) = Len(run.trace)
        /\ run.calls = SubSeq(<< "A", "B" >>, 1, Len(run.notes))
        /\ run.pc = "start" => run.trace = <<>>
        /\ run.pc = "stageA" => Len(run.trace) = 2
        /\ run.pc \in {"stageB", "returned"} => Len(run.trace) = 4
        /\ (run.pc = "thrown" /\ h.apiKey) => Len(run.trace) >= 2
        /\ Len(run.notes) = 2 => StageAAnswered /\ StageAImage(h.respA[1]) # Null
        /\ (StageAAnswered /\ StageAImage(h.respA[1]) # Null) => Len(run.notes) = 2

SilentOnceOver ==
    /\ h'.run.pc \in {"returned", "thrown"} => h'.run.notes = h.run.notes
    /\ h.run.pc \in {"returned", "thrown"} => h'.run = h.run

C17_NotifiedBeforeEachCall == []NotifiedBeforeEachCall /\ [][SilentOnceOver]_vars

C17_Witness ==
    /\ h.run.pc = "thrown"
    /\ h.run.trace = FullTrace
    /\ Len(h.run.notes) = 2
    /\ h.respB # Null /\ ~h.respB[1].ok

\* ========================================================= session claims
\* C1: at most one pipeline run (a conversion started by handleConvertClick or
\* a resize started by handleResize) is in flight at any time, also after a
\* reset pressed while a resize is in flight.
RunsInFlight ==
    (IF convertTask # Null THEN 1 ELSE 0) + (IF resizeTask # Null THEN 1 ELSE 0)
        + Len(orphans)

C1_AtMostOneRunInFlight == RunsInFlight <= 1

\* C7: the version list holds at most one Blueprint per size.
C7_OneBlueprintPerSize ==
    mounted => \A i, j \in 1..Len(blueprints) :
                  blueprints[i].size = blueprints[j].size => i = j

C7_Witness ==
    /\ mounted
    /\ Len(blueprints) = 3
    /\ {blueprints[i].size : i \in 1..3} = {"Micro", "Medium", "Large"}
    /\ resizeTask = Null

\* C8: every Blueprint displayed or held in the version list has
\* validatedParts and realTotalCost, and realTotalCost is the sum of
\* realPrice * quantity over its validatedParts.
RECURSIVE CostOfFirst(_, _)
CostOfFirst(parts, n) ==
    IF n = 0 THEN 0
    ELSE CostOfFirst(parts, n - 1) + parts[n].realPrice * parts[n].quantity

Priced(bp) ==
    /\ "validatedParts" \in DOMAIN bp
    /\ "realTotalCost" \in DOMAIN bp
    /\ bp.realTotalCost = CostOfFirst(bp.validatedParts, Len(bp.validatedParts))

C8_CostIsSumOfParts ==
    /\ legoBlueprint # Null => Priced(legoBlueprint[1])
    /\ \A i \in 1..Len(blueprints) : Priced(blueprints[i])

C8_Witness ==
    /\ mounted
    /\ Len(blueprints) = 2
    /\ blueprints[1].realTotalCost = 30
    /\ blueprints[2].realTotalCost = 358
    /\ legoBlueprint = Some(blueprints[1])

\* C9: a successful resize to size S appends exactly one Blueprint of size S
\* at the end of the version list; the entries before it keep their index and
\* their fields, and every version stays selectable.  No other step of a
\* mounted result view changes the list.
ResizeEnds == mounted /\ mounted' /\ resizeTask # Null /\ resizeTask' = Null

ResizeSucceeds == ResizeEnds /\ resizeError' = Null

C9_ResizeAppendsOne ==
    [][ /\ ResizeSucceeds =>
            /\ Len(blueprints') = Len(blueprints) + 1
            /\ blueprints'[Len(blueprints')].size = resizeTask[1].run.size
            /\ SubSeq(blueprints', 1, Len(blueprints)) = blueprints
            /\ legoBlueprint' # Null /\ ~isLoading' /\ selectedFile' # Null
            /\ Len(blueprints') > 1
        /\ (mounted /\ mounted' /\ ~ResizeSucceeds) => blueprints' = blueprints
      ]_vars

C9_Witness ==
    /\ mounted
    /\ Len(blueprints) = 2
    /\ blueprints[1] = legoBlueprint[1]
    /\ blueprints[1].size = "Medium"
    /\ blueprints[2].size = "Large"
    /\ currentIndex = 0
    /\ resizeTask = Null

\* C10: a failed resize (missing credentials, no Stage A image, failed image
\* encoding, validation throwing) leaves the session in Ready: version list
\* and selection unchanged, top-level error unset, the local resize error
\* set, isResizing and the resize progress message cleared.
ResizeFails ==
    /\ ResizeEnds
    /\ resizeTask[1].pc # "validate" \/ resizeError' # Null

SessionIdle ==
    /\ selectedFile = Null /\ previewUrl = Null
    /\ legoBlueprint = Null
    /\ ~mounted /\ blueprints = <<>>
    /\ error = Null
    /\ progressMessage = EmptyString
    /\ ~isLoading /\ ~isDemoLoading /\ ~isResizing
    /\ convertTask = Null /\ ~demoTask /\ resizeTask = Null
    /\ UploadPanel

C11_ResetGivesIdle == [][handleReset => SessionIdle']_vars

\* reset was pressed in the result view while a resize was running
C11_Witness == SessionIdle /\ Len(orphans) > 0

\* C12: whenever no conversion is running (isLoading is false) the top-level
\* progress message is the empty string, after a conversion that ended in
\* Ready as after one that ended in Error.
C12_ProgressClearedOutsideConverting == ~isLoading => progressMessage = EmptyString

\* a conversion has failed: the error panel is up and the image still selected
C12_Witness ==
    /\ ErrorPanel /\ selectedFile # Null
    /\ ~isLoading /\ convertTask = Null
    /\ progressMessage = EmptyString

\* C13: whenever a conversion has failed or the demo image has failed to
\* load, the stored error is a non-empty string, whatever was thrown: an
\* Error with a message, an Error with an empty message, or a value that is
\* not an Error.
C13_ErrorIsReadable == error # Null => error[1] # EmptyString

\* C14: when the pipeline run and the validation of a conversion both
\* succeed, the session goes from Converting to Ready and the version list
\* holds exactly one entry: the Blueprint the run returned, enhanced with
\* validatedParts and realTotalCost, of the size selected when Convert was
\* pressed.
ConvertEnds == convertTask # Null /\ convertTask' = Null

ConvertSucceeds == ConvertEnds /\ legoBlueprint' # Null

C14_ConversionGivesOneVersion ==
    [][ ConvertSucceeds =>
            /\ isLoading /\ convertTask[1].pc = "validate"
            /\ ResultView' /\ mounted' /\ error' = Null
            /\ Len(blueprints') = 1
            /\ blueprints'[1] = legoBlueprint'[1]
            /\ currentIndex' = 0
            /\ LET initialBlueprint == convertTask[1].run.result[1]
               IN  \A k \in DOMAIN initialBlueprint \ {"validatedParts", "realTotalCost"} :
                      blueprints'[1][k] = initialBlueprint[k]
            /\ Priced(blueprints'[1])
            /\ blueprints'[1].size = selectedSize
            /\ selectedSize' = selectedSize
      ]_vars

C14_Witness ==
    /\ ResultView /\ mounted
    /\ convertTask = Null /\ resizeTask = Null
    /\ selectedSize = "Micro"
    /\ Len(blueprints) = 1
    /\ blueprints[1].size = "Micro"
    /\ blueprints[1].title # fallbackBlueprint.title

\* C15: when image encoding fails, the pipeline run throws or validation
\* throws during a conversion, the session goes from Converting to Error
\* (the error panel) and no Blueprint exists afterwards: legoBlueprint is
\* null and no version list is mounted.
ConvertFails == ConvertEnds /\ legoBlueprint' = Null

C15_FailedConversionGivesError ==
    [][ ConvertFails =>
            /\ isLoading /\ ~isLoading'
            /\ ErrorPanel'
            /\ legoBlueprint' = Null /\ ~mounted' /\ blueprints' = <<>>
      ]_vars

\* C18: a file whose type is not an image type is refused by the uploader:
\* onFileSelect is not called, so selected file, Blueprint, error and loading
\* state stay as they were, and no conversion ever runs on such a file.
NonImageOffered ==
    /\ inputFiles' # inputFiles
    /\ inputFiles' # Null
    /\ ~startsWith(inputFiles'[1].type, "image/")

OnlyImagesSelected ==
    /\ selectedFile # Null => startsWith(selectedFile[1].type, "image/")
    /\ inputFiles # Null =>
           /\ selectedFile = Null /\ legoBlueprint = Null
           /\ ~isLoading /\ convertTask = Null
    /\ (isLoading \/ convertTask # Null \/ legoBlueprint # Null) =>
           selectedFile # Null /\ inputFiles = Null

C18_NonImageIsRefused ==
    /\ []OnlyImagesSelected
    /\ [][ NonImageOffered =>
               /\ selectedFile = Null
               /\ UNCHANGED << selectedFile, previewUrl, legoBlueprint, error, isLoading,
                               isDemoLoading, progressMessage, selectedSize >>
               /\ UNCHANGED << resultVars, convertTask, demoTask, resizeTask >>
         ]_vars

\* the file input holds the refused file and nothing is selected
C18_Witness ==
    /\ inputFiles # Null
    /\ inputFiles[1].name = "notes.txt"
    /\ selectedFile = Null /\ previewUrl = Null
    /\ legoBlueprint = Null /\ error = Null
    /\ ~isLoading /\ convertTask = Null

\* C19: without the API key a pipeline run, of either entry point, throws
\* the credential Error before any service call and before any progress
\* notification of its own; a conversion then ends in Error with the
\* credential message, a resize with the credential message as its local
\* resize error and the version list as it was.
CredentialMessage == Str("API_KEY environment variable not set.")

KeylessRunThrowsFirst ==
    \A entry \in {"generate", "resize"}, size \in Sizes :
        LET run == PipelineBegin(NewRun(entry, size), FALSE)
        IN  /\ run.pc = "thrown"
            /\ run.err = Some(Err(CredentialMessage))
            /\ run.calls = <<>> /\ run.notes = <<>> /\ run.trace = <<>>
            /\ run.result = Null

\* what the catch of either handler is handed, and stores, without the key
KeylessHandlerFails ==
    \A entry \in {"generate", "resize"}, size \in Sizes, len \in 0..2 :
        \A task \in TaskAdvance(NewTask(entry, size, len), FALSE) :
            /\ task.pc = "failed"
            /\ task.blueprint = Null
            /\ task.run.calls = <<>> /\ task.run.notes = <<>>
            /\ \/ task.err = Some(ReaderErrorEvent)
               \/ /\ task.err = Some(Err(CredentialMessage))
                  /\ ErrorMessage(task.err[1], Str("An unknown error occurred during resize."))
                         = CredentialMessage

\* the runs of the session: none gets past its first await without the key
SessionTasks ==
    {convertTask[i] : i \in 1..Len(convertTask)}
        \cup {resizeTask[i] : i \in 1..Len(resizeTask)}
        \cup {orphans[i] : i \in 1..Len(orphans)}

KeylessSession ==
    ~apiKey =>
        /\ \A task \in SessionTasks :
               /\ task.pc = "encode"
               /\ task.run.calls = <<>> /\ task.run.notes = <<>>
        /\ legoBlueprint = Null /\ ~mounted
        /\ progressMessage \in {EmptyString, Str("Preparing image...")}

KeylessEnd ==
    ~apiKey =>
        /\ ConvertEnds =>
               /\ ErrorPanel' /\ legoBlueprint' = Null /\ ~isLoading'
               \* the credential Error, or the file reader's event when the
               \* encoding failed before the run was started
               /\ error' \in {Some(CredentialMessage),
                               Some(Str("An unknown error occurred. Please try again."))}
        /\ ResizeEnds =>
               /\ blueprints' = blueprints /\ currentIndex' = currentIndex
               /\ resizeError' \in {Some(CredentialMessage),
                                     Some(Str("An unknown error occurred during resize."))}

C19_NoKeyFailsBeforeAnyCall ==
    [](KeylessRunThrowsFirst /\ KeylessHandlerFails /\ KeylessSession) /\ [][KeylessEnd]_vars

C19_Witness ==
    /\ ~apiKey
    /\ error = Some(CredentialMessage)
    /\ selectedFile # Null
    /\ legoBlueprint = Null /\ ~isLoading /\ convertTask = Null

\* C20: once a file is selected no operation but the explicit reset and the
\* "clear selection" button of the preview discards or replaces it; that
\* button is rendered only before a conversion is requested, so the image
\* is present in every Converting and Ready state and in the Error state a
\* failed conversion leaves.
ImagePresent ==
    /\ (isLoading \/ convertTask # Null) => selectedFile # Null
    /\ (ResultView \/ mounted) => selectedFile # Null
    /\ resizeTask # Null => selectedFile # Null
    /\ selectedFile # Null => previewUrl = Some(createObjectURL(selectedFile[1]))

ImageLost == selectedFile # Null /\ selectedFile' # selectedFile

\* as claimed: only the reset discards the image
C20_Original == [][ImageLost => handleReset]_vars

C20_ImageRetained ==
    /\ []ImagePresent
    /\ [][ /\ ImageLost => handleReset \/ (clearSelection /\ UploadPanel /\ ~isLoading)
           /\ (ConvertFails /\ selectedFile' # Null) => selectedFile' = selectedFile
           /\ ConvertFails => selectedFile' # Null
         ]_vars

\* a conversion failed and the image is still there
C20_Witness ==
    /\ ErrorPanel
    /\ selectedFile # Null
    /\ selectedFile[1].name = "house-demo.jpg"
    /\ legoBlueprint = Null /\ ~isLoading

\* C21: while a result view is mounted the current selection is a valid
\* index of its version list, 0 <= currentIndex < number of versions, so
\* blueprints[currentIndex] is defined, whatever the interleaving of version
\* selections with resize starts, successes and failures.
C21_SelectionInRange ==
    mounted =>
        /\ Len(blueprints) >= 1
        /\ currentIndex \in 0..(Len(blueprints) - 1)
        /\ "legoImageData" \in DOMAIN blueprints[currentIndex + 1]
        /\ resizeTask # Null => resizeTask[1].len = Len(blueprints)

\* after one successful resize the first version is selected again while a
\* resize to a third size is on its last await
C21_Witness ==
    /\ mounted
    /\ Len(blueprints) = 2
    /\ currentIndex = 0
    /\ resizeTask # Null /\ resizeTask[1].pc = "validate"
    /\ legoBlueprint = Some(blueprints[1])

\* C22: after every successful resize the current selection is the
\* Blueprint it appended, the last one of the version list, whichever
\* version was selected while it ran; the index is the length of the list
\* in the render that started the resize.
C22_ResizeSelectsNewVersion ==
    [][ ResizeSucceeds =>
            /\ currentIndex' = Len(blueprints') - 1
            /\ currentIndex' = resizeTask[1].len
            /\ blueprints'[currentIndex' + 1].size = resizeTask[1].run.size
            /\ \A i \in 1..Len(blueprints) : blueprints'[currentIndex' + 1] # blueprints[i]
      ]_vars

\* the third version has just been appended and is the one shown
C22_Witness ==
    /\ mounted
    /\ Len(blueprints) = 3
    /\ currentIndex = 2
    /\ blueprints[3].size = "Micro"
    /\ resizeTask = Null /\ resizeError = Null /\ ~isResizing

\* C23: in every state exactly one of the four top-level views is rendered:
\* the upload panel (!legoBlueprint && !isLoading && !error), the progress
\* indicator (isLoading), the error panel (error) or the result view
\* (legoBlueprint && !isLoading); an error is never set while a conversion
\* is loading or while a Blueprint is set.
ViewsShown ==
    (IF UploadPanel THEN 1 ELSE 0) + (IF isLoading THEN 1 ELSE 0)
        + (IF ErrorPanel THEN 1 ELSE 0) + (IF ResultView THEN 1 ELSE 0)

C23_ExactlyOneView ==
    /\ ViewsShown = 1
    /\ error # Null => ~isLoading /\ legoBlueprint = Null
    /\ mounted <=> ResultView

\* the demo image could not be loaded: the error panel alone, nothing selected
C23_Witness ==
    /\ ErrorPanel
    /\ selectedFile = Null
    /\ ~UploadPanel /\ ~isLoading /\ ~ResultView
    /\ ~isDemoLoading

\* C24: a resize still in flight when reset is pressed changes nothing of
\* the session afterwards: when it goes on, succeeds or fails, the version
\* list of a later conversion gets no Blueprint from it, and the top-level
\* Blueprint, error and progress message stay as they are.
\* a step of a detached resize: the reset that detaches one adds to orphans
DetachedResizeStep == orphans' # orphans /\ Len(orphans') <= Len(orphans)

C24_DetachedResizeIsInert ==
    [][ DetachedResizeStep =>
            /\ UNCHANGED << blueprints, currentIndex, mounted, isResizing, resizeProgress,
                            resizeError >>
            /\ UNCHANGED << legoBlueprint, error, progressMessage, isLoading, selectedFile,
                            previewUrl, selectedSize, isDemoLoading >>
            /\ UNCHANGED << convertTask, demoTask, resizeTask >>
      ]_vars

\* the result of a later conversion is shown while the resize of the session
\* before it, detached by the reset, is on its last await
C24_Witness ==
    /\ mounted
    /\ Len(blueprints) = 1
    /\ Len(orphans) = 1
    /\ orphans[1].pc = "validate"
    /\ orphans[1].run.size # blueprints[1].size
    /\ resizeTask = Null /\ resizeError = Null

====
